---- MODULE Spec2Model ----
(***************************************************************************)
(* A model of haptreex: the branch-and-prune phasing engine (src/alg.py)   *)
(* and the ingestion pipeline (src/files.py, src/datagen.py).              *)
(*                                                                         *)
(* Python values are modelled as follows.                                  *)
(*   - A call's outcome is a record [kind, exc, val]: kind "return" with   *)
(*     the returned value, or kind "raise" with the exception's class.     *)
(*   - Floats that appear as scores are fixed-point integers in units of   *)
(*     1e-4, plus +inf, -inf and nan with IEEE-754 arithmetic.             *)
(*   - Dictionaries are functions; lists and tuples are sequences.         *)
(***************************************************************************)
EXTENDS Integers, Sequences, FiniteSets, TLC

VARIABLES
    fn, args, ret,               \* a single call of a pure function
    pipeline,                    \* "files" (src/files.py) or "datagen" (src/datagen.py)
    vcf_lines,                   \* the lines of the VCF file read so far
    snps, line_to_snp,           \* VCF.snps, VCF.line_to_snp
    chromosomes, seen_snps,      \* VCF.chromosomes, parse_vcf's line counter
    vcf_out,                     \* outcome of parse_vcf
    frag_lines,                  \* the lines of the fragment file read so far
    frag_yield,                  \* what parse_fragmat has yielded so far
    frag_out,                    \* how parse_fragmat ended, if it has
    skip_single,                 \* parse_phases' argument
    reads, read_counter,         \* parse_phases' locals
    phases_out,                  \* outcome of list(parse_phases(...))
    graph,                       \* the Graph handed to phase
    todo, result,                \* phase: the roots still to do, the mapping built
    heap,                        \* the haplotype dicts, by reference
    phases,                      \* parallel's list of Phases
    allow_allele_permutations,   \* parallel's flag
    snp_i, prev_snp,             \* parallel's loop position and prev_snp
    calls,                       \* the calls of branch and prune made so far
    phase_out,                   \* outcome of phase
    bam_stream,                  \* the alignment records parse_bam has read so far
    sam_name,                    \* what sam.query_name gives on the stream object
    seen, seen_chrs,             \* parse_bam's buffer and its set of chromosomes
    bam_calls,                   \* the arguments of the calls of parse_read so far
    bam_out,                     \* how parse_bam ended, if it has
    gtf_b, gtf_chroms,           \* parse_gtf: the rows of the file, the chromosome set
    gtf_i, gtf_gi,               \* parse_gtf's row index and gene counter
    genes,                       \* the Genes parse_gtf has yielded so far
    gtf_out,                     \* how parse_gtf ended, if it has
    rna_reads,                   \* load_dna_data's argument
    dna_reads,                   \* load_dna_data's list of Reads
    dna_out                      \* outcome of load_dna_data

callVars == <<fn, args, ret>>
vcfVars == <<pipeline, vcf_lines, snps, line_to_snp, chromosomes, seen_snps, vcf_out>>
fragVars == <<frag_lines, frag_yield, frag_out>>
phasesVars == <<skip_single, reads, read_counter, phases_out>>
algVars == <<graph, todo, result, heap, phases, allow_allele_permutations, snp_i,
             prev_snp, calls, phase_out>>
bamVars == <<bam_stream, sam_name, seen, seen_chrs, bam_calls, bam_out>>
gtfVars == <<gtf_b, gtf_chroms, gtf_i, gtf_gi, genes, gtf_out>>
dnaVars == <<rna_reads, dna_reads, dna_out>>
vars == <<callVars, vcfVars, fragVars, phasesVars, algVars, bamVars, gtfVars, dnaVars>>

(***************************************************************************)
(* Bounds of the model.                                                    *)
(***************************************************************************)
MaxPhases == 3
MaxLines == 3
MaxFragLines == 2
MaxRaw == 3
MaxReads == 2

(***************************************************************************)
(* Outcomes of a call.                                                     *)
(***************************************************************************)
NoRet == [kind |-> "none", exc |-> "", val |-> <<>>]
Return(v) == [kind |-> "return", exc |-> "", val |-> v]
Raise(e) == [kind |-> "raise", exc |-> e, val |-> <<>>]

(***************************************************************************)
(* The parts of the state a specification does not use stay as they are    *)
(* set here.                                                               *)
(***************************************************************************)
CallIdle == fn = "" /\ args = <<>> /\ ret = NoRet

VcfIdle ==
    /\ pipeline = "files"
    /\ vcf_lines = <<>>
    /\ snps = <<>>
    /\ line_to_snp = <<>>
    /\ chromosomes = {}
    /\ seen_snps = 0
    /\ vcf_out = NoRet

FragIdle ==
    /\ frag_lines = <<>>
    /\ frag_yield = <<>>
    /\ frag_out = NoRet

PhasesIdle ==
    /\ skip_single = TRUE
    /\ reads = <<>>
    /\ read_counter = <<>>
    /\ phases_out = NoRet

AlgIdle ==
    /\ graph = <<>>
    /\ todo = <<>>
    /\ result = <<>>
    /\ heap = <<>>
    /\ phases = <<>>
    /\ allow_allele_permutations = TRUE
    /\ snp_i = -1
    /\ prev_snp = -1
    /\ calls = <<>>
    /\ phase_out = NoRet

BamIdle ==
    /\ bam_stream = <<>>
    /\ sam_name = ""
    /\ seen = <<>>
    /\ seen_chrs = {}
    /\ bam_calls = <<>>
    /\ bam_out = NoRet

GtfIdle ==
    /\ gtf_b = <<>>
    /\ gtf_chroms = {}
    /\ gtf_i = 0
    /\ gtf_gi = 0
    /\ genes = <<>>
    /\ gtf_out = NoRet

DnaIdle ==
    /\ rna_reads = <<>>
    /\ dna_reads = <<>>
    /\ dna_out = NoRet


SeqsUpTo(S, n) == UNION {[1..m -> S] : m \in 0..n}

(***************************************************************************)
(* Floats: finite fixed-point values, the infinities and nan.              *)
(***************************************************************************)
Fin(n) == [k |-> "fin", v |-> n]
PInf == [k |-> "inf", v |-> 1]
NInf == [k |-> "inf", v |-> -1]
NaN == [k |-> "nan", v |-> 0]

FNeg(x) == IF x.k = "nan" THEN NaN ELSE [k |-> x.k, v |-> -x.v]

FAdd(x, y) ==
    IF x.k = "nan" \/ y.k = "nan" THEN NaN
    ELSE IF x.k = "fin" /\ y.k = "fin" THEN Fin(x.v + y.v)
    ELSE IF x.k = "inf" /\ y.k = "inf" THEN (IF x.v = y.v THEN x ELSE NaN)
    ELSE IF x.k = "inf" THEN x
    ELSE y

FSub(x, y) == FAdd(x, FNeg(y))

FAbs(x) ==
    IF x.k = "nan" THEN NaN
    ELSE IF x.v < 0 THEN [k |-> x.k, v |-> -x.v]
    ELSE x

\* x < y on floats: false as soon as one side is nan
FLt(x, y) ==
    IF x.k = "nan" \/ y.k = "nan" THEN FALSE
    ELSE IF x.k = "fin" /\ y.k = "fin" THEN x.v < y.v
    ELSE IF x.k = "inf" /\ y.k = "inf" THEN x.v < y.v
    ELSE IF x.k = "inf" THEN x.v < 0
    ELSE y.v > 0

FGe(x, y) ==
    IF x.k = "nan" \/ y.k = "nan" THEN FALSE
    ELSE ~FLt(x, y)

\* Python's min(): keeps the first element, replaces it when a later one is <
RECURSIVE PyMinFrom(_, _, _)
PyMinFrom(s, i, m) ==
    IF i > Len(s) THEN m
    ELSE PyMinFrom(s, i + 1, IF FLt(s[i], m) THEN s[i] ELSE m)

PyMin(s) == PyMinFrom(s, 2, s[1])

\* Python's max(): keeps the first element, replaces it when a later one is >
RECURSIVE PyMaxFrom(_, _, _)
PyMaxFrom(s, i, m) ==
    IF i > Len(s) THEN m
    ELSE PyMaxFrom(s, i + 1, IF FLt(m, s[i]) THEN s[i] ELSE m)

PyMax(s) == PyMaxFrom(s, 2, s[1])

(***************************************************************************)
(* parse_vcf (src/files.py, src/datagen.py).                               *)
(*                                                                         *)
(* A line of the file is a header line or a data line.  Of a data line the *)
(* model keeps the chromosome and the position (integers, ordered as the   *)
(* strings and numbers they stand for), the length of REF, the length of   *)
(* each ALT allele, the allele indices of the GT value, and whether GT is  *)
(* the last key of FORMAT.  Lines are read by iterating over the file      *)
(* object, so each one still ends with its newline when it is split.       *)
(***************************************************************************)
HeaderLine ==
    [header |-> TRUE, chr |-> 1, pos |-> 1, ref_len |-> 1, alts |-> <<1>>,
     gt |-> <<0, 0>>, gt_last |-> FALSE]

DataLine(chr, pos, ref_len, alts, gt, gt_last) ==
    [header |-> FALSE, chr |-> chr, pos |-> pos, ref_len |-> ref_len, alts |-> alts,
     gt |-> gt, gt_last |-> gt_last]

VcfLineSet ==
    {HeaderLine}
    \cup {DataLine(c, p, 1, <<1>>, <<0, 1>>, l) : c \in 1..2, p \in 1..2, l \in BOOLEAN}
    \cup {DataLine(c, p, 1, <<1, 1>>, <<1, 2>>, FALSE) : c \in 1..2, p \in 1..2}
    \cup {DataLine(1, 1, 1, <<1>>, <<1, 1>>, FALSE),   \* homozygous
          DataLine(1, 1, 2, <<1>>, <<0, 1>>, FALSE),   \* REF longer than one character
          DataLine(1, 1, 1, <<2>>, <<0, 1>>, FALSE)}   \* ALT longer than one character

\* lines 49, 53, 54: the tokens of fmt['GT'].replace('|', '/').split('/').  The
\* sample column is the last field of line.split('\t') and keeps the line's
\* newline, which ends up in the last token of GT when GT is the last key.
GtTokens(line) ==
    [i \in 1..Len(line.gt) |->
        [idx |-> line.gt[i], nl |-> line.gt_last /\ i = Len(line.gt)]]

\* str(i) in gt
StrInGt(i, gt) == \E k \in 1..Len(gt) : gt[k].idx = i /\ ~gt[k].nl

\* lines 55, 57: the lengths of [ref] + alt.split(','), then the allele indices
\* that are named by GT and are one character long, in order
AlleleLens(line) == <<line.ref_len>> \o line.alts

RECURSIVE KeptAllelesFrom(_, _, _)
KeptAllelesFrom(lens, gt, i) ==
    IF i > Len(lens) THEN <<>>
    ELSE (IF StrInGt(i - 1, gt) /\ lens[i] = 1 THEN <<i - 1>> ELSE <<>>)
         \o KeptAllelesFrom(lens, gt, i + 1)

KeptAlleles(line) == KeptAllelesFrom(AlleleLens(line), GtTokens(line), 1)

\* lines 50, 58: the line yields a SNP
Retained(line) ==
    /\ ~line.header
    /\ line.ref_len = 1
    /\ Len(KeptAlleles(line)) > 1

\* line 59: SNP(len(snps), chr, int(pos) - 1, id, alleles)
SNP(id, line) ==
    [id |-> id, chr |-> line.chr, pos |-> line.pos - 1, alleles |-> KeptAlleles(line)]

\* SNP.__lt__ (module read): SNPs are ordered by (chromosome, position)
SnpLess(a, b) == a.chr < b.chr \/ (a.chr = b.chr /\ a.pos < b.pos)

\* the check of line 60 comparing positions alone
NotSortedByPos(catalog, snp) ==
    Len(catalog) > 0 /\ snp.pos < catalog[Len(catalog)].pos

\* line 60: snps and snp < snps[-1]
NotSorted(catalog, snp) ==
    Len(catalog) > 0 /\ SnpLess(snp, catalog[Len(catalog)])

\* len(snp): class SNP (module read) has no __len__
SnpLen(snp) == Raise("TypeError")

\* line 62 of files.py stores len(snps); line 57 of datagen.py asks for len(snp)
LineIndex(pl, catalog, snp) ==
    IF pl = "files" THEN Return(Len(catalog)) ELSE SnpLen(snp)

VcfInit ==
    /\ CallIdle /\ FragIdle /\ PhasesIdle /\ AlgIdle /\ BamIdle /\ GtfIdle /\ DnaIdle
    /\ pipeline \in {"files", "datagen"}
    /\ vcf_lines = <<>>
    /\ snps = <<>>
    /\ line_to_snp = <<>>
    /\ chromosomes = {}
    /\ seen_snps = 0
    /\ vcf_out = NoRet

\* one iteration of the loop of lines 45-64
VcfLine(line) ==
    /\ vcf_out = NoRet
    /\ Len(vcf_lines) < MaxLines
    /\ vcf_lines' = Append(vcf_lines, line)
    /\ IF line.header
       THEN UNCHANGED <<snps, line_to_snp, chromosomes, seen_snps, vcf_out>>
       ELSE /\ seen_snps' = seen_snps + 1
            /\ IF ~Retained(line)
               THEN UNCHANGED <<snps, line_to_snp, chromosomes, vcf_out>>
               ELSE LET snp == SNP(Len(snps), line)
                        idx == LineIndex(pipeline, snps, snp)
                    IN IF NotSorted(snps, snp)
                       THEN /\ vcf_out' = Raise("ValueError")
                            /\ UNCHANGED <<snps, line_to_snp, chromosomes>>
                       ELSE IF idx.kind = "raise"
                       THEN /\ vcf_out' = idx
                            /\ UNCHANGED <<snps, line_to_snp, chromosomes>>
                       ELSE /\ line_to_snp' =
                                  [n \in DOMAIN line_to_snp \cup {seen_snps'} |->
                                      IF n = seen_snps' THEN idx.val ELSE line_to_snp[n]]
                            /\ snps' = Append(snps, snp)
                            /\ chromosomes' = chromosomes \cup {line.chr}
                            /\ UNCHANGED vcf_out
    /\ UNCHANGED <<pipeline, callVars, fragVars, phasesVars, algVars, bamVars, gtfVars, dnaVars>>

\* line 66: the end of the file
VcfReturn ==
    /\ vcf_out = NoRet
    /\ vcf_out' = Return([snps |-> snps, line_to_snp |-> line_to_snp,
                          chromosomes |-> chromosomes])
    /\ UNCHANGED <<pipeline, vcf_lines, snps, line_to_snp, chromosomes, seen_snps,
                   callVars, fragVars, phasesVars, algVars, bamVars, gtfVars, dnaVars>>

VcfNext == (\E line \in VcfLineSet : VcfLine(line)) \/ VcfReturn

SpecVcf == VcfInit /\ [][VcfNext]_vars

(***************************************************************************)
(* parse_fragmat (src/files.py, src/datagen.py).                           *)
(*                                                                         *)
(* Of a line of the fragment file the model keeps whether the tokens       *)
(* between the read name and the quality string are odd in number, the     *)
(* runs they spell (a starting line index and the allele digits), the      *)
(* length of the quality string, and whether the quality string is a       *)
(* single character below QUALITY_CUTOFF.  An observation keeps the index  *)
(* of its quality character in place of the character.                     *)
(***************************************************************************)
Run(s, digits) == [s |-> s, digits |-> digits]

FragLineOf(odd, runs, qual_len, qual_low) ==
    [odd |-> odd, runs |-> runs, qual_len |-> qual_len, qual_low |-> qual_low]

FragLineSet ==
    {FragLineOf(FALSE, <<Run(s, d)>>, 4, FALSE) :
        s \in 1..3, d \in UNION {[1..m -> {0, 2}] : m \in 1..2}}
    \cup {FragLineOf(FALSE, <<Run(1, <<0, 0>>)>>, 1, FALSE),        \* quality string too short
          FragLineOf(FALSE, <<Run(1, <<2>>)>>, 1, TRUE),            \* below the cutoff
          FragLineOf(TRUE, <<Run(1, <<0>>)>>, 4, FALSE),            \* a dangling token
          FragLineOf(FALSE, <<Run(1, <<0>>), Run(1, <<0>>)>>, 4, FALSE)}

\* the catalog parse_vcf builds from data lines 1..3 of which those in R yield a SNP
RankIn(R, n) == Cardinality({m \in R : m < n})

CatalogOf(R) ==
    [snps |-> [k \in 1..Cardinality(R) |->
                  LET n == CHOOSE m \in R : RankIn(R, m) = k - 1
                  IN [id |-> k - 1, chr |-> 1, pos |-> n - 1, alleles |-> <<0, 1>>]],
     line_to_snp |-> [n \in R |-> RankIn(R, n)]]

FragCatalogs == {CatalogOf(R) : R \in {{1, 2, 3}, {1, 3}, {2, 3}}}

\* line 241 of files.py stores snp.id; line 203 of datagen.py stores idx
ObservedId(pl, snp, idx) == IF pl = "files" THEN snp.id ELSE idx

\* lines 235-237: a line index without a catalog entry leaves idx as it is
IdxAfterMiss(idx) == idx

\* lines 234-242: the digits of one run from offset j on.  acc is
\* [alleles, exc]: the observations so far and the exception raised, if any
RECURSIVE FragDigits(_, _, _, _, _, _, _)
FragDigits(pl, cat, line, digits, j, idx, acc) ==
    IF j > Len(digits) \/ acc.exc # "" THEN acc
    ELSE IF idx \notin DOMAIN cat.line_to_snp
    THEN FragDigits(pl, cat, line, digits, j + 1, IdxAfterMiss(idx), acc)
    ELSE LET snp == cat.snps[cat.line_to_snp[idx] + 1]
             allele == digits[j]
         IN IF ~(0 <= allele /\ allele < Len(snp.alleles))
            THEN [acc EXCEPT !.exc = "ValueError"]
            ELSE IF Len(acc.alleles) >= line.qual_len      \* qual[len(alleles)]
            THEN [acc EXCEPT !.exc = "IndexError"]
            ELSE FragDigits(pl, cat, line, digits, j + 1, idx + 1,
                    [acc EXCEPT !.alleles = Append(@,
                        [snp |-> ObservedId(pl, snp, idx), allele |-> allele,
                         qual |-> Len(acc.alleles)])])

\* lines 232-242: the runs of a line from run i on
RECURSIVE FragRuns(_, _, _, _, _)
FragRuns(pl, cat, line, i, acc) ==
    IF i > Len(line.runs) \/ acc.exc # "" THEN acc
    ELSE FragRuns(pl, cat, line, i + 1,
            FragDigits(pl, cat, line, line.runs[i].digits, 1, line.runs[i].s, acc))

\* lines 224-243: one line; "skip" when the line is dropped
FragLineResult(pl, cat, line) ==
    IF line.odd THEN Raise("ValueError")
    ELSE IF line.qual_len = 1 /\ line.qual_low THEN [kind |-> "skip", exc |-> "", val |-> <<>>]
    ELSE LET acc == FragRuns(pl, cat, line, 1, [alleles |-> <<>>, exc |-> ""])
         IN IF acc.exc # "" THEN Raise(acc.exc) ELSE Return(acc.alleles)

VCF == [snps |-> snps, line_to_snp |-> line_to_snp]

FragInit ==
    /\ CallIdle /\ PhasesIdle /\ AlgIdle /\ BamIdle /\ GtfIdle /\ DnaIdle
    /\ pipeline \in {"files", "datagen"}
    /\ \E cat \in FragCatalogs :
          /\ snps = cat.snps
          /\ line_to_snp = cat.line_to_snp
          /\ chromosomes = {1}
          /\ seen_snps = 3
    /\ vcf_lines = <<>>
    /\ vcf_out = NoRet
    /\ frag_lines = <<>>
    /\ frag_yield = <<>>
    /\ frag_out = NoRet

\* one iteration of the loop of lines 223-243
FragLine(line) ==
    /\ frag_out = NoRet
    /\ Len(frag_lines) < MaxFragLines
    /\ frag_lines' = Append(frag_lines, line)
    /\ LET r == FragLineResult(pipeline, VCF, line)
       IN /\ frag_yield' = IF r.kind = "return" THEN Append(frag_yield, r.val) ELSE frag_yield
          /\ frag_out' = IF r.kind = "raise" THEN r ELSE frag_out
    /\ UNCHANGED <<callVars, vcfVars, phasesVars, algVars, bamVars, gtfVars, dnaVars>>

\* the end of the file: the generator is exhausted
FragEnd ==
    /\ frag_out = NoRet
    /\ frag_out' = Return(<<>>)
    /\ UNCHANGED <<frag_lines, frag_yield, callVars, vcfVars, phasesVars, algVars, bamVars, gtfVars, dnaVars>>

FragNext == (\E line \in FragLineSet : FragLine(line)) \/ FragEnd

SpecFragmat == FragInit /\ [][FragNext]_vars

(***************************************************************************)
(* parse_phases (src/files.py, src/datagen.py).  It drives parse_fragmat   *)
(* over its paths one after the other; frag_yield is the stream of         *)
(* (name, alleles) items it has been handed so far, of which the model     *)
(* keeps alleles.  The locals reads and read_counter are a list and a      *)
(* dict, which keeps its keys in insertion order.                          *)
(***************************************************************************)
Obs(s, a, q) == [snp |-> s, allele |-> a, qual |-> q]

RawOf(pairs, q) == [i \in 1..Len(pairs) |-> Obs(pairs[i][1], pairs[i][2], q)]

\* lists parse_fragmat can yield over two SNPs: no, one or two observations,
\* the same pairs in either order, one SNP observed twice, and lists that
\* differ in their quality characters alone
RawSet ==
    {RawOf(<<>>, 0),
     RawOf(<<<<0, 0>>>>, 0), RawOf(<<<<0, 0>>>>, 1), RawOf(<<<<1, 1>>>>, 0),
     RawOf(<<<<0, 0>>, <<1, 1>>>>, 0), RawOf(<<<<0, 0>>, <<1, 1>>>>, 1),
     RawOf(<<<<1, 1>>, <<0, 0>>>>, 0), RawOf(<<<<0, 1>>, <<1, 0>>>>, 0),
     RawOf(<<<<0, 0>>, <<0, 1>>>>, 0), RawOf(<<<<0, 0>>, <<0, 0>>>>, 0)}

\* line 255: not (skip_single and len(alleles) <= 1)
KeepRaw(skip, alleles) == ~(skip /\ Len(alleles) <= 1)

\* the key of line 262 with the quality character left in
ReadKeyWithQual(r) == [i \in 1..Len(r) |-> <<r[i].snp, r[i].allele, r[i].qual>>]

\* line 262: tuple((s, a) for s, a, _ in r)
ReadKey(r) == [i \in 1..Len(r) |-> <<r[i].snp, r[i].allele>>]

KeyIndex(counter, key) ==
    IF \E i \in 1..Len(counter) : counter[i].key = key
    THEN CHOOSE i \in 1..Len(counter) : counter[i].key = key
    ELSE 0

\* lines 261-266: the dict after the raw lists from i on
RECURSIVE CountFrom(_, _, _)
CountFrom(rs, i, counter) ==
    IF i > Len(rs) THEN counter
    ELSE LET key == ReadKey(rs[i])
             at == KeyIndex(counter, key)
         IN CountFrom(rs, i + 1,
               IF at = 0 THEN Append(counter, [key |-> key, cnt |-> 1])
               ELSE [counter EXCEPT ![at].cnt = @ + 1])

\* {snp_id: snp_a for snp_id, snp_a in tup}: a later pair replaces an earlier one
DictOf(tup) ==
    [s \in {tup[i][1] : i \in 1..Len(tup)} |->
        tup[CHOOSE i \in 1..Len(tup) :
                tup[i][1] = s /\ \A j \in (i + 1)..Len(tup) : tup[j][1] # s][2]]

\* line 270: Read(snps, count, id)
Read(tup, cnt, i) == [snps |-> DictOf(tup), count |-> cnt, id |-> i]

\* lines 269-270
ReadsOf(counter) ==
    [i \in 1..Len(counter) |-> Read(counter[i].key, counter[i].cnt, i - 1)]

PhasesInit ==
    /\ CallIdle /\ VcfIdle /\ AlgIdle /\ FragIdle /\ BamIdle /\ GtfIdle /\ DnaIdle
    /\ skip_single \in BOOLEAN
    /\ reads = <<>>
    /\ read_counter = <<>>
    /\ phases_out = NoRet

\* lines 254-257: parse_fragmat yields one more item
PhasesPull(alleles) ==
    /\ phases_out = NoRet
    /\ frag_out = NoRet
    /\ Len(frag_yield) < MaxRaw
    /\ frag_yield' = Append(frag_yield, alleles)
    /\ reads' = IF KeepRaw(skip_single, alleles) THEN Append(reads, alleles) ELSE reads
    /\ UNCHANGED <<frag_lines, frag_out, skip_single, read_counter, phases_out>>
    /\ UNCHANGED <<callVars, vcfVars, algVars, bamVars, gtfVars, dnaVars>>

\* parse_fragmat raises (lines 227, 240): the exception leaves parse_phases
PhasesFail ==
    /\ phases_out = NoRet
    /\ frag_out = NoRet
    /\ frag_out' = Raise("ValueError")
    /\ phases_out' = Raise("ValueError")
    /\ UNCHANGED <<frag_lines, frag_yield, skip_single, reads, read_counter>>
    /\ UNCHANGED <<callVars, vcfVars, algVars, bamVars, gtfVars, dnaVars>>

\* lines 258-270: the last path is exhausted; count, then yield every Read
PhasesFinish ==
    /\ phases_out = NoRet
    /\ frag_out = NoRet
    /\ frag_out' = Return(<<>>)
    /\ read_counter' = CountFrom(reads, 1, <<>>)
    /\ phases_out' = Return(ReadsOf(read_counter'))
    /\ UNCHANGED <<frag_lines, frag_yield, skip_single, reads>>
    /\ UNCHANGED <<callVars, vcfVars, algVars, bamVars, gtfVars, dnaVars>>

PhasesNext == (\E alleles \in RawSet : PhasesPull(alleles)) \/ PhasesFail \/ PhasesFinish

SpecPhases == PhasesInit /\ [][PhasesNext]_vars

(***************************************************************************)
(* Probabilities are exact rationals [n, d] in lowest terms; log is taken  *)
(* in fixed point (units of 1e-4) from the logarithms of the primes.       *)
(***************************************************************************)
RECURSIVE Gcd(_, _)
Gcd(x, y) == IF y = 0 THEN x ELSE Gcd(y, x % y)

Rat(n, d) == LET g == Gcd(n, d) IN [n |-> n \div g, d |-> d \div g]
RZero == Rat(0, 1)
ROne == Rat(1, 1)
RHalf == Rat(1, 2)
RAdd(x, y) == Rat(x.n * y.d + y.n * x.d, x.d * y.d)
RSub(x, y) == Rat(x.n * y.d - y.n * x.d, x.d * y.d)
RMul(x, y) == Rat(x.n * y.n, x.d * y.d)
\* x / y for y # 0
RDiv(x, y) == Rat(x.n * y.d, x.d * y.n)

LogPrime(p) ==
    CASE p = 2 -> 6931 [] p = 3 -> 10986 [] p = 5 -> 16094 [] p = 7 -> 19459
      [] p = 11 -> 23979 [] p = 13 -> 25649 [] p = 17 -> 28332 [] p = 19 -> 29444
      [] p = 23 -> 31355 [] p = 29 -> 33673 [] p = 31 -> 34340

RECURSIVE LogNat(_)
LogNat(n) ==
    IF n = 1 THEN 0
    ELSE LET p == CHOOSE q \in 2..n : n % q = 0 /\ \A r \in 2..(q - 1) : n % r # 0
         IN LogPrime(p) + LogNat(n \div p)

\* math.log of a positive rational
Log(x) == LogNat(x.n) - LogNat(x.d)

(***************************************************************************)
(* read_val_tail (src/alg.py).  A haplotype is a dict from SNP id to       *)
(* allele; a Read has snps (a dict), count, special_snp and rates.         *)
(***************************************************************************)
\* lines 34, 35, for error = en / ed
ErrA(error) == Rat(3 * (error.d - error.n), 3 * error.d - 2 * error.n)
ErrB(error) == Rat(error.n, 3 * error.d - 2 * error.n)

\* line 40: (CONFIDENCE * read.rates[hi]) + (0.5 * (1 - CONFIDENCE)), CONFIDENCE = 0.5
BaseProb(rate) == RAdd(RMul(RHalf, rate), RMul(RHalf, RSub(ROne, RHalf)))

\* lines 41-43: the product of a or b over the SNPs in S
RECURSIVE MatchProduct(_, _, _, _, _)
MatchProduct(read, haplo, a, b, S) ==
    IF S = {} THEN ROne
    ELSE LET s == CHOOSE x \in S : TRUE
         IN RMul(IF read.snps[s] = haplo[s] THEN a ELSE b,
                 MatchProduct(read, haplo, a, b, S \ {s}))

\* line 44: the divisor prob is divided by
TailDivisor(read, haplo, a, b, last_snp) ==
    IF read.snps[last_snp] = haplo[last_snp] THEN a ELSE b

\* lines 40-45 for one haplotype: [exc, prob, prob2]
HapTerm(read, haplo, rate, a, b, last_snp) ==
    LET S == {s \in DOMAIN read.snps : s <= last_snp}
    IN IF \E s \in S : s \notin DOMAIN haplo
       THEN [exc |-> "KeyError", prob |-> RZero, prob2 |-> RZero]
       ELSE IF last_snp \notin DOMAIN read.snps \/ last_snp \notin DOMAIN haplo
       THEN [exc |-> "KeyError", prob |-> RZero, prob2 |-> RZero]
       ELSE LET prob == RMul(BaseProb(rate), MatchProduct(read, haplo, a, b, S))
                f == TailDivisor(read, haplo, a, b, last_snp)
            IN IF f.n = 0
               THEN [exc |-> "ZeroDivisionError", prob |-> prob, prob2 |-> RZero]
               ELSE [exc |-> "", prob |-> prob, prob2 |-> RDiv(prob, f)]

\* lines 38-45: the haplotypes from hi on; acc is [exc, probs, probs2]
RECURSIVE ReadSums(_, _, _, _, _, _, _)
ReadSums(read, haplotypes, hi, a, b, last_snp, acc) ==
    IF hi > Len(haplotypes) \/ acc.exc # "" THEN acc
    ELSE LET t == HapTerm(read, haplotypes[hi], read.rates[hi], a, b, last_snp)
         IN ReadSums(read, haplotypes, hi + 1, a, b, last_snp,
               IF t.exc # "" THEN [acc EXCEPT !.exc = t.exc]
               ELSE [acc EXCEPT !.probs = RAdd(@, t.prob), !.probs2 = RAdd(@, t.prob2)])

\* lines 37-51: the reads from i on; acc is [exc, val, val2]
RECURSIVE TailReads(_, _, _, _, _, _, _)
TailReads(reads_, haplotypes, i, a, b, last_snp, acc) ==
    IF i > Len(reads_) \/ acc.exc # "" THEN acc
    ELSE LET read == reads_[i]
             sums == ReadSums(read, haplotypes, 1, a, b, last_snp,
                              [exc |-> "", probs |-> RZero, probs2 |-> RZero])
         IN TailReads(reads_, haplotypes, i + 1, a, b, last_snp,
               IF sums.exc # "" THEN [acc EXCEPT !.exc = sums.exc]
               ELSE IF sums.probs.n = 0 THEN [acc EXCEPT !.val = NInf]
               ELSE IF last_snp = read.special_snp
               THEN [acc EXCEPT !.val = FAdd(@, Fin(Log(sums.probs) * read.count))]
               ELSE IF sums.probs2.n = 0
               THEN [acc EXCEPT !.exc = "ValueError"]              \* log(0)
               ELSE [acc EXCEPT !.val = FAdd(@, Fin(Log(sums.probs) * read.count)),
                                !.val2 = FAdd(@, Fin(Log(sums.probs2) * read.count))])

\* lines 55-61: the prior of a switch between prev_snp and last_snp
PairPrior(haplotypes, pair_threshold, last_snp, prev) ==
    IF Cardinality(DOMAIN haplotypes[1]) <= 1 THEN Return(Fin(0))
    ELSE IF prev = -1 THEN Raise("AssertionError")
    ELSE IF last_snp \notin DOMAIN haplotypes[1] \/ prev \notin DOMAIN haplotypes[1]
    THEN Raise("KeyError")
    ELSE LET p == IF haplotypes[1][last_snp] = haplotypes[1][prev]
                  THEN pair_threshold ELSE RSub(ROne, pair_threshold)
         IN IF p.n = 0 THEN Raise("ValueError") ELSE Return(Fin(Log(p)))

read_val_tail(haplotypes, pair_threshold, error, relevant_reads, last_snp, prev) ==
    IF 3 * error.d - 2 * error.n = 0 THEN Raise("ZeroDivisionError")
    ELSE LET a == ErrA(error)
             b == ErrB(error)
             acc == TailReads(relevant_reads, haplotypes, 1, a, b, last_snp,
                              [exc |-> "", val |-> Fin(0), val2 |-> Fin(0)])
             prior == PairPrior(haplotypes, pair_threshold, last_snp, prev)
         IN IF acc.exc # "" THEN Raise(acc.exc)
            ELSE IF prior.kind = "raise" THEN prior
            ELSE Return(FSub(FAdd(acc.val, prior.val), acc.val2))

(***************************************************************************)
(* Calls of read_val_tail on the candidate extensions of a diploid phasing *)
(* of SNPs 0 and 1 by SNP 1 (the labels at SNP 1 are a permutation of the  *)
(* haplotype indices), and on the phasing of SNP 0 alone.                  *)
(***************************************************************************)
ReadOf(snps_, count, special) ==
    [snps |-> snps_, count |-> count, special_snp |-> special, rates |-> <<RHalf, RHalf>>]

TailReadSet ==
    {ReadOf([s \in 0..1 |-> IF s = 0 THEN x ELSE y], 1, 1) : x \in 0..1, y \in 0..1}
    \cup {ReadOf([s \in 0..1 |-> 0], 2, 1)}

TailHaplotypes ==
    {<<[s \in 0..1 |-> IF s = 0 THEN x ELSE c[1]], [s \in 0..1 |-> IF s = 0 THEN y ELSE c[2]]>> :
        x \in 0..1, y \in 0..1, c \in {<<0, 1>>, <<1, 0>>}}

ErrorSet == {Rat(0, 1), Rat(3, 5)}

TailInit ==
    /\ VcfIdle /\ FragIdle /\ PhasesIdle /\ AlgIdle /\ BamIdle /\ GtfIdle /\ DnaIdle
    /\ fn = "read_val_tail"
    /\ \/ \E hs \in TailHaplotypes, rs \in SeqsUpTo(TailReadSet, MaxReads), e \in ErrorSet :
             args = [haplotypes |-> hs, pair_threshold |-> Rat(4, 5), error |-> e,
                     relevant_reads |-> rs, last_snp |-> 1, prev_snp |-> 0]
       \/ \E c \in {<<0, 1>>, <<1, 0>>}, e \in ErrorSet :
             args = [haplotypes |-> <<[s \in {0} |-> c[1]], [s \in {0} |-> c[2]]>>,
                     pair_threshold |-> Rat(4, 5), error |-> e,
                     relevant_reads |-> <<>>, last_snp |-> 0, prev_snp |-> -1]
    /\ ret = NoRet

CallTail ==
    /\ fn = "read_val_tail"
    /\ ret = NoRet
    /\ ret' = read_val_tail(args.haplotypes, args.pair_threshold, args.error,
                            args.relevant_reads, args.last_snp, args.prev_snp)
    /\ UNCHANGED <<fn, args, vcfVars, fragVars, phasesVars, algVars, bamVars, gtfVars, dnaVars>>

SpecTail == TailInit /\ [][CallTail]_vars

(***************************************************************************)
(* prune (src/alg.py).  The window abs(log(threshold)) + 0.0001 in units   *)
(* of 1e-4, rounded up: differences of fixed-point scores are integers, so *)
(* d < window holds exactly when d < the rounded-up window.                *)
(***************************************************************************)
WindowLast == 1
WindowOver1000 == 23027
WindowOver500 == 29959
WindowOver100 == 46053
WindowSmall == 69079

PruneWindow(n, is_last) ==
    IF is_last THEN WindowLast
    ELSE IF n > 1000 THEN WindowOver1000
    ELSE IF n > 500 THEN WindowOver500
    ELSE IF n > 100 THEN WindowOver100
    ELSE WindowSmall

Scores(ps) == [i \in 1..Len(ps) |-> ps[i].score]

\* line 123: abs(p.score - min_val) < threshold
PruneKeep(p, min_val, threshold) ==
    FLt(FAbs(FSub(p.score, min_val)), Fin(threshold))

Survivors(ps, is_last) ==
    LET threshold == PruneWindow(Len(ps), is_last)
        min_val == PyMin(Scores(ps))
    IN SelectSeq(ps, LAMBDA p : PruneKeep(p, min_val, threshold))

\* every outcome prune can have: random.choice makes the last step a choice
prune(ps, is_last) ==
    IF Len(ps) = 0 THEN {Raise("ValueError")}          \* min() of an empty sequence
    ELSE LET nphases == Survivors(ps, is_last)
         IN IF ~is_last THEN {Return(nphases)}
            ELSE IF nphases = <<>> THEN {Raise("IndexError")} \* choice([])
            ELSE {Return(<<nphases[i]>>) : i \in 1..Len(nphases)}

(***************************************************************************)
(* Calls of prune on lists of up to MaxPhases Phases.  A score is what     *)
(* branch leaves in a Phase: a finite number, or +inf once a cost was -inf.*)
(***************************************************************************)
ScoreSet == {Fin(0), Fin(1), Fin(69078), Fin(69079), PInf}

MkPhases(scores) ==
    [i \in 1..Len(scores) |-> [haplotypes |-> <<2 * i - 1, 2 * i>>, score |-> scores[i]]]

PruneInit ==
    /\ VcfIdle /\ FragIdle /\ PhasesIdle /\ AlgIdle /\ BamIdle /\ GtfIdle /\ DnaIdle
    /\ fn = "prune"
    /\ \E scores \in SeqsUpTo(ScoreSet, MaxPhases), is_last \in BOOLEAN :
          args = [phases |-> MkPhases(scores), is_last |-> is_last]
    /\ ret = NoRet

CallPrune ==
    /\ fn = "prune"
    /\ ret = NoRet
    /\ ret' \in prune(args.phases, args.is_last)
    /\ UNCHANGED <<fn, args, vcfVars, fragVars, phasesVars, algVars, bamVars, gtfVars, dnaVars>>

SpecPrune == PruneInit /\ [][CallPrune]_vars

(***************************************************************************)
(* branch (src/alg.py).                                                    *)
(***************************************************************************)
\* list(permutations(range(ploidy))): the tuples over 0..ploidy-1 without a
\* repeated entry, in lexicographic order
IsPermutation(c, ploidy) == \A i, j \in 1..ploidy : i # j => c[i] # c[j]

LexLess(c, d) ==
    \E i \in 1..Len(c) : c[i] < d[i] /\ \A j \in 1..(i - 1) : c[j] = d[j]

PermutationList(ploidy) ==
    LET P == {c \in [1..ploidy -> 0..(ploidy - 1)] : IsPermutation(c, ploidy)}
    IN [k \in 1..Cardinality(P) |->
           CHOOSE c \in P : Cardinality({d \in P : LexLess(d, c)}) = k - 1]

\* line 81: the trailing comma makes configs a tuple of one element, the list
Configs(ploidy) == <<PermutationList(ploidy)>>

\* lines 85, 98: for j in len(config).  len() gives an int, and iterating over
\* an int raises TypeError
ForJInLen(config) == Raise("TypeError")

\* lines 80-101.  With no Phase the loop of line 83 has no iteration.  With
\* one, its first iteration enters the loop of line 84, whose first config is
\* the list of permutations, and stops at line 85: lines 86-100 are not reached
branch(phases_, snp, prev, relevant_reads, threshold, pair_threshold, error, ploidy) ==
    LET new_phases == <<>>
        configs == Configs(ploidy)
    IN IF Len(phases_) = 0 THEN Return(new_phases)
       ELSE ForJInLen(configs[1])

(***************************************************************************)
(* Calls of branch on lists of up to MaxPhases Phases over two haplotype   *)
(* dicts each.                                                             *)
(***************************************************************************)
BranchInit ==
    /\ VcfIdle /\ FragIdle /\ PhasesIdle /\ AlgIdle /\ BamIdle /\ GtfIdle /\ DnaIdle
    /\ fn = "branch"
    /\ \E n \in 0..MaxPhases, x \in 0..1, y \in 0..1, rs \in SeqsUpTo(TailReadSet, MaxReads),
          e \in ErrorSet :
          args = [phases |-> [i \in 1..n |->
                                 [haplotypes |-> <<[s \in {0} |-> x], [s \in {0} |-> y]>>,
                                  score |-> Fin(0)]],
                  snp |-> 1, prev_snp |-> 0, relevant_reads |-> rs, threshold |-> Fin(0),
                  pair_threshold |-> Rat(4, 5), error |-> e, ploidy |-> 2]
    /\ ret = NoRet

CallBranch ==
    /\ fn = "branch"
    /\ ret = NoRet
    /\ ret' = branch(args.phases, args.snp, args.prev_snp, args.relevant_reads,
                     args.threshold, args.pair_threshold, args.error, args.ploidy)
    /\ UNCHANGED <<fn, args, vcfVars, fragVars, phasesVars, algVars, bamVars, gtfVars, dnaVars>>

SpecBranch == BranchInit /\ [][CallBranch]_vars

(***************************************************************************)
(* parallel and phase (src/alg.py).  A haplotype dict is an object on the  *)
(* heap and a Phase holds references to its dicts.  snp_i is the number of *)
(* nodes parallel's loop has consumed, -1 outside parallel.                *)
(***************************************************************************)
\* line 159: log(threshold / (1 - threshold)), for 0 < threshold < 1
LogOdds(t) == Fin(Log(RDiv(t, RSub(ROne, t))))

GraphOf(components, with_reads) ==
    [components |-> components,
     snp_reads |-> [s \in 0..2 |->
                       IF with_reads /\ s > 0
                       THEN <<ReadOf([x \in {s - 1, s} |-> 0], 1, s)>>
                       ELSE <<>>],
     ploidy |-> 2]

Component(nodes) == [nodes |-> nodes]

ComponentsSet ==
    {<<>>,
     [r \in {0} |-> Component(<<0>>)],
     [r \in {0} |-> Component(<<0, 1>>)],
     [r \in {0} |-> Component(<<0, 1, 2>>)],
     [r \in {0, 2} |-> IF r = 0 THEN Component(<<0, 1>>) ELSE Component(<<2>>)],
     [r \in {0, 1} |-> IF r = 0 THEN Component(<<0>>) ELSE Component(<<1, 2>>)],
     [r \in {0, 1} |-> IF r = 0 THEN Component(<<0, 2>>) ELSE Component(<<1>>)]}

GraphSet == {GraphOf(c, w) : c \in ComponentsSet, w \in BOOLEAN}

\* the keys of a dict of integers, in ascending order
RECURSIVE SortedKeys(_)
SortedKeys(S) ==
    IF S = {} THEN <<>>
    ELSE LET m == CHOOSE x \in S : \A y \in S : x <= y
         IN <<m>> \o SortedKeys(S \ {m})

AlgInit ==
    /\ VcfIdle /\ FragIdle /\ PhasesIdle /\ BamIdle /\ GtfIdle /\ DnaIdle
    /\ ret = NoRet
    /\ graph \in GraphSet
    /\ \E t \in {Rat(1, 2), Rat(1, 10)}, e \in ErrorSet :
          \/ /\ fn = "phase"
             /\ args = [threshold |-> t, pair_threshold |-> Rat(4, 5), error |-> e,
                        allow_allele_permutations |-> TRUE]
             /\ todo = SortedKeys(DOMAIN graph.components)
          \/ /\ fn = "parallel"
             /\ \E root \in DOMAIN graph.components, allow \in BOOLEAN :
                   /\ args = [threshold |-> t, pair_threshold |-> Rat(4, 5), error |-> e,
                              allow_allele_permutations |-> allow]
                   /\ todo = <<root>>
    /\ result = <<>>
    /\ heap = <<>>
    /\ phases = <<>>
    /\ allow_allele_permutations = TRUE
    /\ snp_i = -1
    /\ prev_snp = -1
    /\ calls = <<>>
    /\ phase_out = NoRet

\* graph.components[root].nodes
Nodes == graph.components[todo[1]].nodes

\* lines 162-163 and 137-139: phase calls parallel for the next root (with the
\* default allow_allele_permutations), which sets up its locals
ParallelEnter ==
    /\ phase_out = NoRet
    /\ snp_i = -1
    /\ todo # <<>>
    /\ heap' = Append(heap, <<>>)
    /\ phases' = <<[haplotypes |-> [h \in 1..graph.ploidy |-> Len(heap) + 1],
                    score |-> Fin(0)]>>
    /\ allow_allele_permutations' = args.allow_allele_permutations
    /\ snp_i' = 0
    /\ prev_snp' = -1
    /\ UNCHANGED <<graph, todo, result, calls, phase_out, callVars, vcfVars, fragVars, phasesVars, bamVars, gtfVars, dnaVars>>

Call(f, root, snp, is_last) == [fn |-> f, root |-> root, snp |-> snp, is_last |-> is_last]

\* line 146: snp == graph.components[root].nodes[-1]
IsLast(snp, nodes) == snp = nodes[Len(nodes)]

\* lines 140-149: one iteration of parallel's loop.  An exception of branch or
\* prune leaves parallel and phase
ParallelIter ==
    /\ phase_out = NoRet
    /\ snp_i >= 0
    /\ snp_i < Len(Nodes)
    /\ LET snp == Nodes[snp_i + 1]
           root == todo[1]
       IN IF allow_allele_permutations
          THEN LET b == branch(phases, snp, prev_snp, graph.snp_reads[snp],
                               LogOdds(args.threshold), args.pair_threshold, args.error,
                               graph.ploidy)
                   is_last == IsLast(snp, Nodes)
               IN IF b.kind = "raise"
                  THEN /\ calls' = Append(calls, Call("branch", root, snp, FALSE))
                       /\ phase_out' = b
                       /\ UNCHANGED <<phases, snp_i, prev_snp, allow_allele_permutations>>
                  ELSE \E p \in prune(b.val, is_last) :
                          /\ calls' = calls \o <<Call("branch", root, snp, FALSE),
                                                  Call("prune", root, snp, is_last)>>
                          /\ UNCHANGED allow_allele_permutations
                          /\ IF p.kind = "raise"
                             THEN /\ phase_out' = p
                                  /\ UNCHANGED <<phases, snp_i, prev_snp>>
                             ELSE /\ phases' = p.val
                                  /\ snp_i' = snp_i + 1
                                  /\ prev_snp' = snp
                                  /\ UNCHANGED phase_out
          ELSE /\ allow_allele_permutations' = TRUE
               /\ snp_i' = snp_i + 1
               /\ prev_snp' = snp
               /\ UNCHANGED <<phases, calls, phase_out>>
    /\ UNCHANGED <<graph, todo, result, heap, callVars, vcfVars, fragVars, phasesVars, bamVars, gtfVars, dnaVars>>

\* lines 150 and 163: parallel returns phases[0], which phase stores
ParallelReturn ==
    /\ phase_out = NoRet
    /\ snp_i >= 0
    /\ snp_i = Len(Nodes)
    /\ IF Len(phases) = 0
       THEN /\ phase_out' = Raise("IndexError")
            /\ UNCHANGED <<todo, result, snp_i>>
       ELSE /\ snp_i' = -1
            /\ todo' = Tail(todo)
            /\ IF fn = "parallel"
               THEN /\ phase_out' = Return(phases[1])
                    /\ UNCHANGED result
               ELSE /\ result' = [r \in DOMAIN result \cup {todo[1]} |->
                                     IF r = todo[1] THEN phases[1] ELSE result[r]]
                    /\ UNCHANGED phase_out
    /\ UNCHANGED <<graph, heap, phases, allow_allele_permutations, prev_snp, calls,
                   callVars, vcfVars, fragVars, phasesVars, bamVars, gtfVars, dnaVars>>

\* line 164
PhaseReturn ==
    /\ fn = "phase"
    /\ phase_out = NoRet
    /\ snp_i = -1
    /\ todo = <<>>
    /\ phase_out' = Return(result)
    /\ UNCHANGED <<graph, todo, result, heap, phases, allow_allele_permutations, snp_i,
                   prev_snp, calls,
                   callVars, vcfVars, fragVars, phasesVars, bamVars, gtfVars, dnaVars>>

AlgNext == ParallelEnter \/ ParallelIter \/ ParallelReturn \/ PhaseReturn

SpecAlg == AlgInit /\ [][AlgNext]_vars

(***************************************************************************)
(* The claims.                                                             *)
(***************************************************************************)
Range(f) == {f[i] : i \in DOMAIN f}

RECURSIVE Concat(_, _)
Concat(ss, i) == IF i > Len(ss) THEN <<>> ELSE ss[i] \o Concat(ss, i + 1)

\* ---- C1 ----------------------------------------------------------------
\* what the claim lets parallel call for a component: nothing for its first
\* SNP, then branch and prune for every later SNP, in order, prune with
\* is_last exactly at the last SNP
ExpectedCalls(root) ==
    LET nodes == graph.components[root].nodes
    IN Concat([i \in 1..(Len(nodes) - 1) |->
                  <<Call("branch", root, nodes[i + 1], FALSE),
                    Call("prune", root, nodes[i + 1], i + 1 = Len(nodes))>>], 1)

CallsFor(root) == SelectSeq(calls, LAMBDA c : c.root = root)

IsPrefix(s, t) == Len(s) <= Len(t) /\ \A i \in 1..Len(s) : s[i] = t[i]

\* C1: when phase runs the per-component search, the first SNP of a
\* component's node list is never passed to branch or prune, every later SNP
\* is passed to branch and then to prune, in order, and prune gets is_last
\* exactly for the last SNP: the calls made for a component are at every
\* moment a prefix of that sequence, and the whole of it once the component's
\* Phase is stored.
C1_FirstSnpSkipped ==
    fn = "phase" =>
        /\ \A root \in DOMAIN graph.components : IsPrefix(CallsFor(root), ExpectedCalls(root))
        /\ \A root \in DOMAIN result : CallsFor(root) = ExpectedCalls(root)
        /\ phase_out.kind # "raise"

\* ---- C2 ----------------------------------------------------------------
\* C2: for any non-empty list of Phases, also one in which every score is the
\* infinite penalty, prune returns a non-empty list (so that parallel has a
\* Phase to return and phase a Phase for every root).
C2_PruneKeepsSome ==
    (fn = "prune" /\ ret # NoRet /\ Len(args.phases) > 0) =>
        (ret.kind = "return" /\ Len(ret.val) > 0)

\* ---- C3 ----------------------------------------------------------------
\* the haplotype maps of a Phase with the new SNP labelled by permutation c
Extend(haplotypes, snp, c) ==
    [h \in 1..Len(haplotypes) |->
        [s \in DOMAIN haplotypes[h] \cup {snp} |->
            IF s = snp THEN c[h] ELSE haplotypes[h][s]]]

CostOf(p, c, a) ==
    read_val_tail(Extend(p.haplotypes, a.snp, c), a.pair_threshold, a.error,
                  a.relevant_reads, a.snp, a.prev_snp)

CostsReturn(a) ==
    \A i \in 1..Len(a.phases), k \in 1..Len(PermutationList(a.ploidy)) :
        CostOf(a.phases[i], PermutationList(a.ploidy)[k], a).kind = "return"

RECURSIVE KeptFrom(_, _, _, _, _)
KeptFrom(p, perms, costs, t, k) ==
    IF k > Len(perms) THEN <<>>
    ELSE (IF FGe(costs[k], t)
          THEN <<[haplotypes |-> Extend(p.haplotypes, args.snp, perms[k]),
                  score |-> FSub(p.score, costs[k])]>>
          ELSE <<>>) \o KeptFrom(p, perms, costs, t, k + 1)

ClaimedBranch(a) ==
    LET perms == PermutationList(a.ploidy)
    IN Concat([i \in 1..Len(a.phases) |->
                  LET p == a.phases[i]
                      costs == [k \in 1..Len(perms) |-> CostOf(p, perms[k], a).val]
                  IN KeptFrom(p, perms, costs, FAdd(a.threshold, PyMax(costs)), 1)], 1)

\* C3: for each input Phase branch computes one cost per permutation of
\* range(ploidy) and returns one new Phase for each permutation whose cost is
\* >= threshold + max(costs) and none for the others; the new Phase maps the
\* new SNP to c[h] on haplotype h, keeps the earlier assignments, and has the
\* input score minus the cost.
C3_BranchExtends ==
    (fn = "branch" /\ ret # NoRet /\ CostsReturn(args)) =>
        ret = Return(ClaimedBranch(args))

\* ---- C4 ----------------------------------------------------------------
\* C4: prune returns the input Phases whose score is within the window of the
\* minimum score, in input order; with is_last it returns exactly one of them;
\* a list of a single Phase comes back unchanged, is_last or not.
C4_PruneWindow ==
    (fn = "prune" /\ ret # NoRet /\ Len(args.phases) > 0) =>
        /\ ret.kind = "return"
        /\ ~args.is_last => ret.val = Survivors(args.phases, FALSE)
        /\ args.is_last =>
              /\ Len(ret.val) = 1
              /\ ret.val[1] \in Range(Survivors(args.phases, TRUE))
        /\ Len(args.phases) = 1 => ret.val = args.phases

\* ---- C5 ----------------------------------------------------------------
\* the read differs from the haplotype at one of the SNPs it covers up to last_snp
Mismatches(read, haplo, last_snp) ==
    \E s \in DOMAIN read.snps : s <= last_snp /\ read.snps[s] # haplo[s]

\* C5: with error = 0, read_val_tail returns negative infinity, and does not
\* raise, whenever some relevant read mismatches every haplotype at one or
\* more of its covered SNPs <= last_snp.
C5_ImpossibleIsMinusInf ==
    (/\ fn = "read_val_tail" /\ ret # NoRet
     /\ args.error = Rat(0, 1)
     /\ \E i \in 1..Len(args.relevant_reads) :
           \A h \in 1..Len(args.haplotypes) :
               Mismatches(args.relevant_reads[i], args.haplotypes[h], args.last_snp))
    => ret = Return(NInf)

\* ---- C6 ----------------------------------------------------------------
\* the indices of the one-character alleles of a data line that its genotype names
GenotypeAlleles(line) ==
    {i \in 0..Len(line.alts) : i \in Range(line.gt) /\ AlleleLens(line)[i + 1] = 1}

\* a data line with a one-character reference and at least two such alleles
Heterozygous(line) ==
    ~line.header /\ line.ref_len = 1 /\ Cardinality(GenotypeAlleles(line)) >= 2

\* the positions in the file of the lines that qualify, and a line's data-line number
Qualifying(lines) == {i \in 1..Len(lines) : Heterozygous(lines[i])}
DataLineNumber(lines, i) == Cardinality({j \in 1..i : ~lines[j].header})
RankOf(S, i) == Cardinality({j \in S : j < i})

\* C6: (src/files.py) the catalog holds exactly the data lines with a
\* one-character reference and at least two genotype-indexed one-character
\* alleles, in file order, each with id equal to its index, and line_to_snp
\* has an entry for data line n exactly when line n was retained, mapping n
\* to that SNP's index.
C6_CatalogExact ==
    (pipeline = "files" /\ vcf_out.kind # "raise") =>
        LET Q == Qualifying(vcf_lines)
        IN /\ Len(snps) = Cardinality(Q)
           /\ \A i \in Q :
                 LET k == RankOf(Q, i)
                 IN /\ snps[k + 1].id = k
                    /\ snps[k + 1].chr = vcf_lines[i].chr
                    /\ snps[k + 1].pos = vcf_lines[i].pos - 1
                    /\ DataLineNumber(vcf_lines, i) \in DOMAIN line_to_snp
                    /\ line_to_snp[DataLineNumber(vcf_lines, i)] = k
           /\ DOMAIN line_to_snp = {DataLineNumber(vcf_lines, i) : i \in Q}

\* ---- C7 ----------------------------------------------------------------
\* a orders before b by (chromosome, position)
OrdersBefore(a, b) == a.chr < b.chr \/ (a.chr = b.chr /\ a.pos < b.pos)

\* the last line read yields a SNP that orders before the last SNP of the catalog
LastLineOutOfOrder ==
    /\ Len(vcf_lines) > 0
    /\ Retained(vcf_lines[Len(vcf_lines)])
    /\ seen_snps \notin DOMAIN line_to_snp
    /\ Len(snps) > 0
    /\ OrdersBefore(SNP(Len(snps), vcf_lines[Len(vcf_lines)]), snps[Len(snps)])

\* C7: parse_vcf raises ValueError, returning no catalog, exactly when a
\* retained SNP orders before the previously retained one by (chromosome,
\* position); every catalog it builds or returns is non-decreasing in
\* (chromosome, position) over consecutive entries.
C7_SortedOrRaises ==
    /\ vcf_out.kind # "raise" =>
          \A i \in 1..(Len(snps) - 1) : ~OrdersBefore(snps[i + 1], snps[i])
    /\ vcf_out.kind = "return" => vcf_out.val.snps = snps
    /\ vcf_out = Raise("ValueError") <=> LastLineOutOfOrder

\* a catalog of at least one SNP was refused a SNP that orders before its last
C7_Witness == vcf_out = Raise("ValueError") /\ Len(snps) >= 1 /\ LastLineOutOfOrder

\* ---- C8 ----------------------------------------------------------------
\* the observations of a run when its digit at offset j belongs to line
\* s + j: a (SNP id, allele) pair for every line the catalog knows
RECURSIVE RunPairs(_, _)
RunPairs(run, j) ==
    IF j >= Len(run.digits) THEN <<>>
    ELSE (IF run.s + j \in DOMAIN line_to_snp
          THEN <<<<snps[line_to_snp[run.s + j] + 1].id, run.digits[j + 1]>>>>
          ELSE <<>>) \o RunPairs(run, j + 1)

LinePairs(line) == Concat([i \in 1..Len(line.runs) |-> RunPairs(line.runs[i], 0)], 1)

\* every digit whose line the catalog knows is an allele index of that SNP
DigitsInRange(line) ==
    \A i \in 1..Len(line.runs) :
        \A j \in 0..(Len(line.runs[i].digits) - 1) :
            LET n == line.runs[i].s + j
            IN n \in DOMAIN line_to_snp =>
                  line.runs[i].digits[j + 1] \in 0..(Len(snps[line_to_snp[n] + 1].alleles) - 1)

BelowCutoff(line) == line.qual_len = 1 /\ line.qual_low

\* a line the parser is to turn into a read
WellFormed(line) ==
    /\ ~line.odd /\ ~BelowCutoff(line)
    /\ DigitsInRange(line)
    /\ Len(LinePairs(line)) <= line.qual_len

Malformed(line) == line.odd \/ (~BelowCutoff(line) /\ ~DigitsInRange(line))

PairsOf(alleles) == [i \in 1..Len(alleles) |-> <<alleles[i].snp, alleles[i].allele>>]

\* C8: (src/files.py) within a run starting at line index s the digit at
\* offset j is attributed to the SNP line_to_snp gives for line s + j; a line
\* index without an entry produces no observation, does not abort the line
\* and does not change the line any other digit is attributed to.
C8_OffsetMapsToLine ==
    (pipeline = "files" /\ \A i \in 1..Len(frag_lines) : WellFormed(frag_lines[i])) =>
        /\ frag_out.kind # "raise"
        /\ Len(frag_yield) = Len(frag_lines)
        /\ \A i \in 1..Len(frag_lines) : PairsOf(frag_yield[i]) = LinePairs(frag_lines[i])

\* ---- C9 ----------------------------------------------------------------
\* C9: (src/files.py) parse_fragmat raises ValueError at a line whose tokens
\* after the read name are odd in number or one of whose digits, for a SNP
\* resolved through the catalog, is not an allele index of that SNP; the
\* reads of the lines before it have been yielded; a line with valid digits
\* yields one observation per digit.
C9_MalformedLineRaises ==
    LET n == Len(frag_lines)
        before == {i \in 1..(n - 1) : ~BelowCutoff(frag_lines[i])}
    IN (/\ pipeline = "files" /\ n > 0
        /\ \A i \in 1..(n - 1) : WellFormed(frag_lines[i]) \/ BelowCutoff(frag_lines[i]))
       => /\ Malformed(frag_lines[n]) =>
                (frag_out = Raise("ValueError") /\ Len(frag_yield) = Cardinality(before))
          /\ WellFormed(frag_lines[n]) =>
                /\ frag_out.kind # "raise"
                /\ Len(frag_yield) = Cardinality(before) + 1
                /\ Len(frag_yield[Len(frag_yield)]) = Len(LinePairs(frag_lines[n]))

\* ---- C10 ---------------------------------------------------------------
\* the raw lists parse_phases keeps, in the order it was handed them
RetainedRaw == SelectSeq(frag_yield, LAMBDA r : ~(skip_single /\ Len(r) <= 1))

\* the (SNP id, allele) pairs of a raw list as a multiset
MultisetOf(pairs) ==
    [p \in Range(pairs) |-> Cardinality({i \in 1..Len(pairs) : pairs[i] = p})]

FirstAt(raw, key) == CHOOSE i \in 1..Len(raw) :
    PairsOf(raw[i]) = key /\ \A j \in 1..(i - 1) : PairsOf(raw[j]) # key

\* C10 as stated: parse_phases yields exactly one Read per distinct multiset
\* of (SNP id, allele) pairs among the retained raw lists, whatever the order
\* of the pairs, with count the number of retained lists of that multiset.
C10_OnePerMultiset ==
    phases_out.kind = "return" =>
        LET raw == RetainedRaw
            out == phases_out.val
        IN /\ Len(out) = Cardinality({MultisetOf(PairsOf(raw[i])) : i \in 1..Len(raw)})
           /\ \A i \in 1..Len(out) :
                 out[i].count = Cardinality({j \in 1..Len(raw) :
                     MultisetOf(PairsOf(raw[j])) = MultisetOf(read_counter[i].key)})

\* C10, amended: parse_phases yields exactly one Read per distinct ordered
\* sequence of (SNP id, allele) pairs among the retained raw lists, quality
\* characters ignored; its count is the number of retained lists with that
\* sequence, its map covers the SNPs of the sequence, and the ids are
\* 0, 1, 2, ... in the order in which the sequences were first seen.
C10_OnePerSequence ==
    phases_out.kind = "return" =>
        LET raw == RetainedRaw
            out == phases_out.val
            keys == {PairsOf(raw[i]) : i \in 1..Len(raw)}
        IN /\ Len(out) = Cardinality(keys)
           /\ Len(read_counter) = Len(out)
           /\ \A i \in 1..Len(out) :
                 /\ out[i].id = i - 1
                 /\ read_counter[i].key \in keys
                 /\ out[i].count = Cardinality({j \in 1..Len(raw) :
                                        PairsOf(raw[j]) = read_counter[i].key})
                 /\ DOMAIN out[i].snps = {p[1] : p \in Range(read_counter[i].key)}
                 /\ \A p \in Range(read_counter[i].key) :
                       Cardinality({q \in Range(read_counter[i].key) : q[1] = p[1]}) = 1
                           => out[i].snps[p[1]] = p[2]
           /\ \A i, j \in 1..Len(out) :
                 i < j => FirstAt(raw, read_counter[i].key) < FirstAt(raw, read_counter[j].key)

\* the same pairs in two orders gave two Reads, and one sequence seen twice a count of 2
C10_Witness ==
    /\ phases_out.kind = "return"
    /\ \E i, j \in 1..Len(phases_out.val) :
          /\ i # j
          /\ MultisetOf(read_counter[i].key) = MultisetOf(read_counter[j].key)
          /\ phases_out.val[i].count = 2

(***************************************************************************)
(* parse_read (src/files.py, src/datagen.py: the two copies are the same). *)
(*                                                                         *)
(* An alignment record keeps query_name, reference_name, pos, cigartuples  *)
(* (pairs <<op, sz>>), seq (a sequence of bases) and qual (a sequence of   *)
(* integers standing for the quality characters in their order; empty     *)
(* for "*").   *)
(* The argument snps is the VCF object of parse_bam's callers, or a        *)
(* mapping from a chromosome to its sorted list of SNPs.  cov is an        *)
(* insertion-ordered dict: a sequence of [snp, alleles], alleles a         *)
(* sequence of [a, quals].                                                 *)
(***************************************************************************)
MaxThreshold == 2

\* '.', the quality of a base of a record without qualities
NoQual == 0

\* qual = '*': the record has no qualities
Star == <<>>

AlignedSegment(name, chr, pos, cigartuples, seq_, qual) ==
    [query_name |-> name, reference_name |-> chr, pos |-> pos,
     cigartuples |-> cigartuples, seq |-> seq_, qual |-> qual]

CatalogSnp(id, chr, pos) == [id |-> id, chr |-> chr, pos |-> pos, alleles |-> <<"A", "C">>]

\* the SNPs of the catalog: positions 1 and 3 of chromosome 1
ReadCatalog == <<CatalogSnp(0, 1, 1), CatalogSnp(1, 1, 3)>>

\* line 120: snps[sam.reference_name].  The dataclass VCF has no __getitem__
Subscript(snps_, chr) ==
    IF snps_.kind = "VCF" THEN Raise("TypeError")
    ELSE IF chr \notin DOMAIN snps_.by_chr THEN Raise("KeyError")
    ELSE Return(snps_.by_chr[chr])

\* line 123: SNP(sam.reference_name, sam.pos + ref, "", []), a SNP to search for
ProbeSnp(chr, pos) == [id |-> -1, chr |-> chr, pos |-> pos, alleles |-> <<>>]

\* line 124: bisect.bisect_left(cand, s), as a 0-based index
BisectLeft(cand, probe) == Cardinality({i \in 1..Len(cand) : SnpLess(cand[i], probe)})

\* snp.alleles.index(base), 0-based
AlleleIndex(alleles, base) == (CHOOSE i \in 1..Len(alleles) : alleles[i] = base) - 1

\* line 133: cov.setdefault(snp, {}).setdefault(allele, []).append(qual)
CovAppend(cov, snp, allele, qual) ==
    IF \E k \in 1..Len(cov) : cov[k].snp = snp
    THEN LET k == CHOOSE k \in 1..Len(cov) : cov[k].snp = snp
             A == cov[k].alleles
         IN IF \E m \in 1..Len(A) : A[m].a = allele
            THEN LET m == CHOOSE m \in 1..Len(A) : A[m].a = allele
                 IN [cov EXCEPT ![k].alleles[m].quals = Append(@, qual)]
            ELSE [cov EXCEPT ![k].alleles = Append(@, [a |-> allele, quals |-> <<qual>>])]
    ELSE Append(cov, [snp |-> snp, alleles |-> <<[a |-> allele, quals |-> <<qual>>]>>])

\* lines 125-134: the candidates from index i (0-based) on, within one
\* operation of size sz.  acc is [cov, count, exc]
RECURSIVE ScanCandidates(_, _, _, _, _, _, _)
ScanCandidates(acc, sam, cand, i, ref, read, sz) ==
    IF i >= Len(cand) \/ acc.exc # "" THEN acc
    ELSE LET snp == cand[i + 1]
             t == snp.pos - sam.pos - ref + read
         IN IF snp.pos >= sam.pos + ref + sz THEN acc
            ELSE IF t >= Len(sam.seq) THEN [acc EXCEPT !.exc = "IndexError"]
            ELSE IF \E m \in 1..Len(snp.alleles) : snp.alleles[m] = sam.seq[t + 1]
            THEN ScanCandidates(
                    [acc EXCEPT !.cov = CovAppend(@, snp,
                                            AlleleIndex(snp.alleles, sam.seq[t + 1]),
                                            IF sam.qual = Star THEN NoQual ELSE sam.qual[t + 1]),
                                !.count = @ + 1],
                    sam, cand, i + 1, ref, read, sz)
            ELSE ScanCandidates(acc, sam, cand, i + 1, ref, read, sz)

\* lines 121-140: the CIGAR operations of one record from the k-th on
RECURSIVE WalkCigar(_, _, _, _, _, _)
WalkCigar(acc, sam, cand, k, ref, read) ==
    IF k > Len(sam.cigartuples) \/ acc.exc # "" THEN acc
    ELSE LET op == sam.cigartuples[k][1]
             sz == sam.cigartuples[k][2]
         IN IF op \in {0, 7, 8}
            THEN WalkCigar(
                    ScanCandidates(acc, sam, cand,
                        BisectLeft(cand, ProbeSnp(sam.reference_name, sam.pos + ref)),
                        ref, read, sz),
                    sam, cand, k + 1, ref + sz, read + sz)
            ELSE IF op \in {1, 4} THEN WalkCigar(acc, sam, cand, k + 1, ref, read + sz)
            ELSE IF op \in {2, 3, 5, 6} THEN WalkCigar(acc, sam, cand, k + 1, ref + sz, read)
            ELSE WalkCigar(acc, sam, cand, k + 1, ref, read)

\* lines 118-140: the records from line_i (1-based) on.  acc is
\* [cov, counts, exc]
RECURSIVE CoverLines(_, _, _, _)
CoverLines(acc, lines, snps_, line_i) ==
    IF line_i > Len(lines) \/ acc.exc # "" THEN acc
    ELSE LET sam == lines[line_i]
             cand == Subscript(snps_, sam.reference_name)
         IN IF cand.kind = "raise" THEN [acc EXCEPT !.exc = cand.exc]
            ELSE LET w == WalkCigar([cov |-> acc.cov, count |-> 0, exc |-> ""],
                                    sam, cand.val, 1, 0, 0)
                 IN CoverLines([cov |-> w.cov, counts |-> Append(acc.counts, w.count),
                                exc |-> w.exc], lines, snps_, line_i + 1)

\* lines 145-147 with no SNP deleted
KeepConflicts(cov, ignore_conflicts) == cov

\* lines 145-147: del cov[snp] for the SNPs with more than one allele
DropConflicts(cov, ignore_conflicts) ==
    SelectSeq(cov, LAMBDA e : ~(ignore_conflicts /\ Len(e.alleles) > 1))

\* max(q)
MaxQual(q) == CHOOSE x \in {q[i] : i \in 1..Len(q)} : \A i \in 1..Len(q) : q[i] <= x

\* line 149: [(snp, a, max(q)) for snp, A in cov.items() for a, q in A.items()]
RECURSIVE Observations(_, _)
Observations(cov, k) ==
    IF k > Len(cov) THEN <<>>
    ELSE [m \in 1..Len(cov[k].alleles) |->
             [snp |-> cov[k].snp, allele |-> cov[k].alleles[m].a,
              qual |-> MaxQual(cov[k].alleles[m].quals)]]
         \o Observations(cov, k + 1)

\* line 148: len(cov) >= threshold
PassesThreshold(cov, threshold) == Len(cov) >= threshold

\* lines 142-143: the name, with the suffix of a merged mate pair
ReadName(lines, counts) ==
    [query_name |-> lines[1].query_name,
     mp |-> Len(counts) > 1 /\ counts[1] > 0 /\ counts[2] > 0]

\* list(parse_read(lines, snps, threshold, ignore_conflicts)): the items it
\* yields, or the exception it raises
parse_read(lines, snps_, threshold, ignore_conflicts) ==
    LET c == CoverLines([cov |-> <<>>, counts |-> <<>>, exc |-> ""], lines, snps_, 1)
    IN IF c.exc # "" THEN Raise(c.exc)
       ELSE LET cov == DropConflicts(c.cov, ignore_conflicts)
            IN IF PassesThreshold(cov, threshold)
               THEN Return(<<[name |-> ReadName(lines, c.counts),
                              alleles |-> Observations(cov, 1)]>>)
               ELSE Return(<<>>)

(***************************************************************************)
(* Calls of parse_read on one or two records over the catalog.             *)
(***************************************************************************)
SegmentSet ==
    {AlignedSegment("r", 1, 0, <<<<0, 4>>>>, <<"A", b, "A", c>>, q) :
        b \in {"A", "C", "G"}, c \in {"A", "C"}, q \in {<<1, 2, 3, 4>>, Star}}
    \cup {AlignedSegment("r", 1, 0, <<<<4, 1>>, <<0, 2>>, <<2, 1>>, <<0, 1>>>>,
                         <<"A", "A", "C", "C">>, <<4, 3, 2, 1>>),
          AlignedSegment("r", 1, 2, <<<<0, 1>>, <<1, 1>>, <<0, 1>>>>, <<"A", "C", "C">>, <<5, 5, 5>>),
          AlignedSegment("r", 1, 5, <<<<0, 2>>>>, <<"A", "A">>, <<1, 1>>),
          AlignedSegment("r", 2, 0, <<<<0, 2>>>>, <<"A", "A">>, <<1, 1>>)}

SnpsArgs ==
    {[kind |-> "VCF", by_chr |-> <<>>],
     [kind |-> "dict", by_chr |-> [c \in {1} |-> ReadCatalog]]}

ReadInit ==
    /\ VcfIdle /\ FragIdle /\ PhasesIdle /\ AlgIdle /\ BamIdle /\ GtfIdle /\ DnaIdle
    /\ fn = "parse_read"
    /\ \E lines \in {<<a>> : a \in SegmentSet} \cup {<<a, b>> : a \in SegmentSet, b \in SegmentSet},
          snps_ \in SnpsArgs, threshold \in 1..MaxThreshold, ic \in BOOLEAN :
          args = [lines |-> lines, snps |-> snps_, threshold |-> threshold,
                  ignore_conflicts |-> ic]
    /\ ret = NoRet

CallRead ==
    /\ fn = "parse_read"
    /\ ret = NoRet
    /\ ret' = parse_read(args.lines, args.snps, args.threshold, args.ignore_conflicts)
    /\ UNCHANGED <<fn, args, vcfVars, fragVars, phasesVars, algVars, bamVars, gtfVars, dnaVars>>

SpecRead == ReadInit /\ [][CallRead]_vars

(***************************************************************************)
(* parse_bam (src/files.py, src/datagen.py: the two copies are the same,   *)
(* but the VCF of datagen.py has no field chromosomes).  Of a record the   *)
(* model also keeps its flags, its mate's reference name and position,     *)
(* and idx, its place in the stream.  seen is an insertion-ordered dict: a *)
(* sequence of [key, line].  A call of parse_read is written down in       *)
(* bam_calls with its list argument before it runs.                        *)
(***************************************************************************)
MaxRecords == 3

BamSegment(name, chr, next_chr, pos, mpos, supplementary, duplicate, mate_unmapped) ==
    [query_name |-> name, reference_name |-> chr, pos |-> pos,
     cigartuples |-> <<<<0, 4>>>>, seq |-> <<"A", "A", "A", "C">>, qual |-> Star,
     next_reference_name |-> next_chr, mpos |-> mpos,
     is_supplementary |-> supplementary, is_duplicate |-> duplicate,
     is_unmapped |-> FALSE, mate_is_unmapped |-> mate_unmapped, idx |-> 0]

\* the two mates of pairs p and q, one of them also as a duplicate and as a
\* supplementary record; a record without a mapped mate; a chimeric record
BamSegmentSet ==
    {BamSegment(n, 1, 1, 0, 1, FALSE, FALSE, FALSE) : n \in {"p", "q"}}
    \cup {BamSegment(n, 1, 1, 1, 0, FALSE, d, FALSE) : n \in {"p", "q"}, d \in BOOLEAN}
    \cup {BamSegment("p", 1, 1, 1, 0, TRUE, FALSE, FALSE),
          BamSegment("q", 1, 1, 0, 0, FALSE, FALSE, TRUE),
          BamSegment("q", 1, 2, 1, 0, FALSE, FALSE, FALSE)}

\* the stream is sorted by position
InStreamOrder(stream, line) ==
    IF stream = <<>> THEN TRUE
    ELSE ~SnpLess([chr |-> line.reference_name, pos |-> line.pos],
                  [chr |-> stream[Len(stream)].reference_name,
                   pos |-> stream[Len(stream)].pos])

\* lines 172-173: the name without a two-character mate suffix
StripSuffix(name) == name

\* line 181: snps.chromosomes; the VCF of datagen.py has no such field
ChromosomesOf(pl) == IF pl = "files" THEN Return({1, 2}) ELSE Raise("AttributeError")

\* lines 176-180: every filter but the one of line 181
Filtered(line, no_chimeric, no_duplicates) ==
    \/ line.is_supplementary
    \/ (no_duplicates /\ line.is_duplicate)
    \/ (no_chimeric /\ line.reference_name # line.next_reference_name)
    \/ line.is_unmapped
    \/ line.cigartuples = <<>>

InSeen(buffer, name) == \E k \in 1..Len(buffer) : buffer[k].key = name
SeenAt(buffer, name) == buffer[CHOOSE k \in 1..Len(buffer) : buffer[k].key = name].line
DelSeen(buffer, name) == SelectSeq(buffer, LAMBDA e : e.key # name)

\* seen[name] = line
PutSeen(buffer, name, line) ==
    IF InSeen(buffer, name)
    THEN [k \in 1..Len(buffer) |->
             IF buffer[k].key = name THEN [key |-> name, line |-> line] ELSE buffer[k]]
    ELSE Append(buffer, [key |-> name, line |-> line])

BamInit ==
    /\ FragIdle /\ PhasesIdle /\ AlgIdle /\ GtfIdle /\ DnaIdle
    /\ pipeline \in {"files", "datagen"}
    /\ vcf_lines = <<>> /\ snps = ReadCatalog /\ line_to_snp = <<>>
    /\ chromosomes = {1, 2} /\ seen_snps = 0 /\ vcf_out = NoRet
    /\ fn = "parse_bam"
    /\ \E nc \in BOOLEAN :
          args = [threshold |-> 1, no_chimeric |-> nc, no_duplicates |-> TRUE,
                  no_conflicts |-> TRUE]
    /\ ret = NoRet
    /\ bam_stream = <<>>
    /\ sam_name \in {"AttributeError", "s"}
    /\ seen = <<>>
    /\ seen_chrs = {}
    /\ bam_calls = <<>>
    /\ bam_out = NoRet

\* yield from parse_read(lines, snps, threshold, no_conflicts), snps the VCF
ReadCall(lines) ==
    parse_read(lines, [kind |-> "VCF", by_chr |-> <<>>], args.threshold, args.no_conflicts)

\* lines 167-207: one record of the stream
BamLine(seg) ==
    /\ bam_out = NoRet
    /\ Len(bam_stream) < MaxRecords
    /\ InStreamOrder(bam_stream, seg)
    /\ LET line == [seg EXCEPT !.idx = Len(bam_stream) + 1]
           name == StripSuffix(sam_name)
           chrs == ChromosomesOf(pipeline)
           hand(lines, buffer) ==
               /\ bam_calls' = Append(bam_calls, lines)
               /\ IF ReadCall(lines).kind = "raise"
                  THEN bam_out' = ReadCall(lines) /\ UNCHANGED seen
                  ELSE seen' = buffer /\ UNCHANGED bam_out
       IN /\ bam_stream' = Append(bam_stream, line)
          /\ seen_chrs' = seen_chrs \cup {line.reference_name}
          /\ IF sam_name = "AttributeError"
             THEN /\ bam_out' = Raise("AttributeError")
                  /\ UNCHANGED <<seen, bam_calls>>
             ELSE IF ~Filtered(line, args.no_chimeric, args.no_duplicates) /\ chrs.kind = "raise"
             THEN /\ bam_out' = chrs
                  /\ UNCHANGED <<seen, bam_calls>>
             ELSE IF \/ Filtered(line, args.no_chimeric, args.no_duplicates)
                     \/ line.reference_name \notin chrs.val
             THEN IF ~line.is_supplementary /\ ~line.mate_is_unmapped /\ InSeen(seen, name)
                  THEN hand(<<SeenAt(seen, name)>>, DelSeen(seen, name))
                  ELSE UNCHANGED <<seen, bam_calls, bam_out>>
             ELSE IF InSeen(seen, name)
             THEN hand(<<SeenAt(seen, name), line>>, DelSeen(seen, name))
             ELSE IF /\ ~line.mate_is_unmapped
                     /\ line.reference_name = line.next_reference_name
                     /\ line.mpos < line.pos
             THEN hand(<<line>>, seen)
             ELSE IF /\ ~line.mate_is_unmapped
                     /\ line.reference_name # line.next_reference_name
                     /\ line.next_reference_name \in seen_chrs'
             THEN hand(<<line>>, seen)
             ELSE /\ seen' = PutSeen(seen, name, line)
                  /\ UNCHANGED <<bam_calls, bam_out>>
    /\ UNCHANGED <<sam_name, callVars, vcfVars, fragVars, phasesVars, algVars, gtfVars, dnaVars>>

\* lines 208-209: the end of the stream.  The loop runs over the keys of
\* seen, and parse_read asks the first of them for its query_name (line 116)
BamEnd ==
    /\ bam_out = NoRet
    /\ IF seen = <<>>
       THEN /\ bam_out' = Return(<<>>)
            /\ UNCHANGED bam_calls
       ELSE /\ bam_calls' = Append(bam_calls, <<[str |-> seen[1].key]>>)
            /\ bam_out' = Raise("AttributeError")
    /\ UNCHANGED <<bam_stream, sam_name, seen, seen_chrs, callVars, vcfVars, fragVars, phasesVars, algVars, gtfVars, dnaVars>>

BamNext == (\E seg \in BamSegmentSet : BamLine(seg)) \/ BamEnd

SpecBam == BamInit /\ [][BamNext]_vars

\* ---- C11 ---------------------------------------------------------------
\* the record passes the filters: it is not supplementary, duplicate,
\* chimeric, unmapped, CIGAR-less or off the catalog
PassesFilters(line) ==
    /\ ~line.is_supplementary
    /\ ~(args.no_duplicates /\ line.is_duplicate)
    /\ ~(args.no_chimeric /\ line.reference_name # line.next_reference_name)
    /\ ~line.is_unmapped
    /\ line.cigartuples # <<>>
    /\ line.reference_name \in chromosomes

CallsHolding(line) == {c \in 1..Len(bam_calls) : \E k \in 1..Len(bam_calls[c]) : bam_calls[c][k] = line}

\* C11: parse_bam hands every record that passes the filters to parse_read
\* exactly once, merged with exactly one other passing record of the same
\* read name or as a singleton; at the end of the stream every record still
\* in the buffer is processed as a singleton, so that none is lost or
\* processed twice: parse_bam does not fail, every call of parse_read is
\* given one passing record of the stream or two of the same name, no
\* passing record is in two calls, and once the stream has ended every
\* passing record is in one.
C11_EachPassingOnce ==
    /\ bam_out.kind # "raise"
    /\ \A c \in 1..Len(bam_calls) :
          /\ Len(bam_calls[c]) \in {1, 2}
          /\ \A k \in 1..Len(bam_calls[c]) :
                \E i \in 1..Len(bam_stream) :
                    bam_calls[c][k] = bam_stream[i] /\ PassesFilters(bam_stream[i])
          /\ Len(bam_calls[c]) = 2 =>
                /\ bam_calls[c][1] # bam_calls[c][2]
                /\ bam_calls[c][1].query_name = bam_calls[c][2].query_name
    /\ \A i \in 1..Len(bam_stream) :
          PassesFilters(bam_stream[i]) =>
              /\ Cardinality(CallsHolding(bam_stream[i])) <= 1
              /\ bam_out.kind = "return" => Cardinality(CallsHolding(bam_stream[i])) = 1

\* ---- C12 ---------------------------------------------------------------
\* where the k-th CIGAR operation of a record starts, on the reference and
\* in the read, as offsets from the record's start
RECURSIVE RefOffset(_, _)
RefOffset(sam, k) ==
    IF k <= 1 THEN 0
    ELSE RefOffset(sam, k - 1)
         + (IF sam.cigartuples[k - 1][1] \in {0, 7, 8, 2, 3, 5, 6}
            THEN sam.cigartuples[k - 1][2] ELSE 0)

RECURSIVE ReadOffset(_, _)
ReadOffset(sam, k) ==
    IF k <= 1 THEN 0
    ELSE ReadOffset(sam, k - 1)
         + (IF sam.cigartuples[k - 1][1] \in {0, 7, 8, 1, 4}
            THEN sam.cigartuples[k - 1][2] ELSE 0)

\* the record has a base aligned to the SNP, and it is the SNP's m-th allele
Records(sam, snp, m) ==
    /\ sam.reference_name = snp.chr
    /\ \E k \in 1..Len(sam.cigartuples) :
          LET d == snp.pos - sam.pos - RefOffset(sam, k)
          IN /\ sam.cigartuples[k][1] \in {0, 7, 8}
             /\ 0 <= d /\ d < sam.cigartuples[k][2]
             /\ sam.seq[ReadOffset(sam, k) + d + 1] = snp.alleles[m]

RecordedAlleles(lines, snp) ==
    {m \in 1..Len(snp.alleles) : \E i \in 1..Len(lines) : Records(lines[i], snp, m)}

\* the SNPs the records cover, without those with two recorded alleles when
\* conflicts are filtered
CoveredSnps(lines, catalog, ignore_conflicts) ==
    {snp \in Range(catalog) :
        /\ RecordedAlleles(lines, snp) # {}
        /\ ~(ignore_conflicts /\ Cardinality(RecordedAlleles(lines, snp)) > 1)}

MaxRows == 3

GtfRow(feature, chr, start, end, gene_name) ==
    [feature |-> feature, chr |-> chr, start |-> start, end |-> end, sign |-> "+",
     gene_name |-> gene_name, transcript_id |-> "t"]

GtfRowSet ==
    {GtfRow("transcript", c, 1, 9, n) : c \in {1, 2}, n \in {"", "g"}}
    \cup {GtfRow("exon", 1, 2, 4, ""), GtfRow("gene", 1, 1, 9, "g")}

\* line 85: info.get("gene_name", info["transcript_id"])
GeneName(row) == IF row.gene_name # "" THEN row.gene_name ELSE row.transcript_id

\* lines 88-92: the exons up to the next transcript row, and the index after them
RECURSIVE ExonsFrom(_, _, _)
ExonsFrom(b, i, exons) ==
    IF i < Len(b) /\ b[i + 1].feature # "transcript"
    THEN ExonsFrom(b, i + 1,
            IF b[i + 1].feature = "exon"
            THEN Append(exons, <<b[i + 1].start, b[i + 1].end - b[i + 1].start + 1>>)
            ELSE exons)
    ELSE [i |-> i, exons |-> exons]

\* line 94: Gene(gi, name, chr, interval, sign, exons)
Gene(gi, name, chr, interval, sign, exons) ==
    [id |-> gi, name |-> name, chr |-> chr, interval |-> interval, sign |-> sign,
     exons |-> exons]

GtfInit ==
    /\ CallIdle /\ VcfIdle /\ FragIdle /\ PhasesIdle /\ AlgIdle /\ BamIdle /\ DnaIdle
    /\ gtf_b \in SeqsUpTo(GtfRowSet, MaxRows)
    /\ gtf_chroms = {1}
    /\ gtf_i = 0
    /\ gtf_gi = 0
    /\ genes = <<>>
    /\ gtf_out = NoRet

\* lines 77-97: one iteration of the outer loop.  The continue of line 83
\* goes back to the test of line 77 with i as it was
GtfIter ==
    /\ gtf_out = NoRet
    /\ gtf_i < Len(gtf_b)
    /\ LET row == gtf_b[gtf_i + 1]
       IN IF row.feature = "transcript"
          THEN IF row.chr \notin gtf_chroms
               THEN UNCHANGED <<gtf_i, gtf_gi, genes>>
               ELSE LET e == ExonsFrom(gtf_b, gtf_i + 1, <<>>)
                    IN /\ genes' = Append(genes,
                              Gene(gtf_gi, GeneName(row), row.chr, <<row.start, row.end>>,
                                   row.sign, e.exons))
                       /\ gtf_gi' = gtf_gi + 1
                       /\ gtf_i' = e.i
          ELSE /\ gtf_i' = gtf_i + 1
               /\ UNCHANGED <<gtf_gi, genes>>
    /\ UNCHANGED <<gtf_b, gtf_chroms, gtf_out, callVars, vcfVars, fragVars, phasesVars, algVars, bamVars, dnaVars>>

\* line 77: i < len(b) fails, the generator is exhausted
GtfEnd ==
    /\ gtf_out = NoRet
    /\ gtf_i >= Len(gtf_b)
    /\ gtf_out' = Return(genes)
    /\ UNCHANGED <<gtf_b, gtf_chroms, gtf_i, gtf_gi, genes, callVars, vcfVars, fragVars, phasesVars, algVars, bamVars, dnaVars>>

GtfNext == GtfIter \/ GtfEnd

\* the consumer keeps asking for the next Gene, and the loop keeps running
SpecGtf == GtfInit /\ [][GtfNext]_vars /\ WF_vars(GtfNext)

\* ---- C13 ---------------------------------------------------------------
\* the positions of the transcript rows on a chromosome of the set
KeptTranscripts ==
    {i \in 1..Len(gtf_b) : gtf_b[i].feature = "transcript" /\ gtf_b[i].chr \in gtf_chroms}

\* parse_gtf has ended, having yielded one Gene per transcript row on a
\* chromosome of the set, in file order, with ids 0, 1, 2, ...
GtfDone ==
    /\ gtf_out.kind = "return"
    /\ Len(gtf_out.val) = Cardinality(KeptTranscripts)
    /\ \A i \in KeptTranscripts :
          LET k == RankOf(KeptTranscripts, i)
          IN /\ gtf_out.val[k + 1].id = k
             /\ gtf_out.val[k + 1].chr = gtf_b[i].chr
             /\ gtf_out.val[k + 1].interval = <<gtf_b[i].start, gtf_b[i].end>>

\* C13: for every finite annotation file and chromosome set, consuming
\* parse_gtf terminates, having yielded exactly one Gene for each transcript
\* row whose chromosome is in the set and none for the other transcript rows,
\* in file order, with ids 0, 1, 2, ... given to the yielded genes.
C13_GtfTerminates == <>GtfDone

\* ---- C14 ---------------------------------------------------------------
\* C14: at every point of a component's search no haplotype map is shared
\* between two Phases of the current list, nor between two haplotype
\* positions of one Phase, so that a label written into one map is seen
\* through no other: the references the Phases hold are pairwise distinct.
C14_NoSharedMaps ==
    snp_i >= 0 =>
        \A p, q \in 1..Len(phases) :
            \A h \in 1..Len(phases[p].haplotypes), g \in 1..Len(phases[q].haplotypes) :
                (p # q \/ h # g) => phases[p].haplotypes[h] # phases[q].haplotypes[g]

(***************************************************************************)
(* load_dna_data (src/files.py, src/datagen.py).  It consumes parse_phases *)
(* with skip_single = True, appends the RNA reads it was given (files.py   *)
(* alone), sets special_snp and rates on every Read and hands the list to  *)
(* Graph.  dna_reads is the part of the list the loop of lines 305-307 has *)
(* been through; the value returned stands for Graph(reads, ploidy=2).     *)
(***************************************************************************)
\* Reads that load_rna_data's parse_phases (skip_single = False) can yield
RnaReadSet == {Read(<<<<0, 0>>, <<1, 1>>>>, 1, 0), Read(<<<<1, 0>>>>, 1, 0)}

\* sorted(r.snps)[1]
SecondKey(d) ==
    IF Cardinality(DOMAIN d) < 2 THEN Raise("IndexError")
    ELSE Return(CHOOSE x \in DOMAIN d : Cardinality({y \in DOMAIN d : y < x}) = 1)

\* lines 306-307: r.special_snp = ...; r.rates = [0.5, 0.5]
Annotated(r) ==
    [snps |-> r.snps, count |-> r.count, id |-> r.id,
     special_snp |-> SecondKey(r.snps).val, rates |-> <<RHalf, RHalf>>]

\* lines 302-304: the list after the RNA reads are appended
WithRnaReads(pl, reads_, rna) == IF pl = "files" THEN reads_ \o rna ELSE reads_

\* lines 305-307: the loop from the i-th Read on; done are the Reads it has
\* been through
RECURSIVE AnnotateFrom(_, _, _)
AnnotateFrom(reads_, i, done) ==
    IF i > Len(reads_) THEN [exc |-> "", done |-> done]
    ELSE IF SecondKey(reads_[i].snps).kind = "raise"
    THEN [exc |-> SecondKey(reads_[i].snps).exc, done |-> done]
    ELSE AnnotateFrom(reads_, i + 1, Append(done, Annotated(reads_[i])))

DnaInit ==
    /\ CallIdle /\ AlgIdle /\ FragIdle /\ BamIdle /\ GtfIdle
    /\ pipeline \in {"files", "datagen"}
    /\ vcf_lines = <<>> /\ snps = <<>> /\ line_to_snp = <<>>
    /\ chromosomes = {} /\ seen_snps = 0 /\ vcf_out = NoRet
    /\ skip_single = TRUE
    /\ reads = <<>>
    /\ read_counter = <<>>
    /\ phases_out = NoRet
    /\ rna_reads \in SeqsUpTo(RnaReadSet, 1)
    /\ dna_reads = <<>>
    /\ dna_out = NoRet

\* lines 301-309, once list(parse_phases(...)) has ended
DnaLoad ==
    /\ dna_out = NoRet
    /\ phases_out # NoRet
    /\ IF phases_out.kind = "raise"
       THEN /\ dna_out' = phases_out
            /\ UNCHANGED dna_reads
       ELSE LET a == AnnotateFrom(WithRnaReads(pipeline, phases_out.val, rna_reads), 1, <<>>)
            IN /\ dna_reads' = a.done
               /\ dna_out' = IF a.exc # "" THEN Raise(a.exc) ELSE Return(a.done)
    /\ UNCHANGED <<rna_reads, callVars, vcfVars, fragVars, phasesVars, algVars, bamVars, gtfVars>>

DnaNext == PhasesNext \/ DnaLoad

SpecDna == DnaInit /\ [][DnaNext]_vars

\* ---- C15 ---------------------------------------------------------------
\* C15: on the DNA path every Read handed to Graph, from parse_phases with
\* skip_single = true or from the RNA reads, covers at least two distinct
\* SNP ids, and its special_snp is the second-smallest SNP id it covers; a
\* raw fragment whose observations all fall on one SNP does not get to this
\* step: once the fragments are parsed load_dna_data returns, and every
\* Read of its list has two SNP ids or more and that special_snp.
C15_TwoSnpsPerRead ==
    (dna_out # NoRet /\ phases_out.kind = "return") =>
        /\ dna_out.kind = "return"
        /\ Len(dna_out.val) = Len(WithRnaReads(pipeline, phases_out.val, rna_reads))
        /\ \A r \in Range(dna_out.val) :
              /\ Cardinality(DOMAIN r.snps) >= 2
              /\ r.special_snp \in DOMAIN r.snps
              /\ Cardinality({x \in DOMAIN r.snps : x < r.special_snp}) = 1

====
